---- MODULE Spec2Model ----
(***************************************************************************)
(* Coaching simulator (src/coach_sim/src/App.jsx): the signal synthesis    *)
(* loop (1 Hz interval), the rule-based coaching policy (React effect),    *)
(* the Start / Pause / Reset handlers, the sensor check boxes and the      *)
(* policy-parameter sliders, the CSV export of the event log and the       *)
(* mouse handlers of the sensor-layout editor (LayoutPane).                *)
(*                                                                         *)
(* Numbers: every real quantity of the program is held in thousandths      *)
(* (smooth 0.7 is 700, hr 72 is 72000, gripTarget 18 is 18000).            *)
(* Math.random() is an input: the jitter (Math.random() - 0.5) * 2 of one  *)
(* rnd() call is a value of [-1000, 1000); a tick draws from Jitters.       *)
(*                                                                         *)
(* React: a handler's state updates are committed together; the effects    *)
(* whose dependencies changed then run before the next event is handled.   *)
(* "due" holds the effects that the last commit scheduled; while it is not *)
(* empty only the Effects step is enabled.                                 *)
(*                                                                         *)
(* A sample record keeps t, smooth, tremor, grip, hr and rr; strain,       *)
(* emgEnv, fsr and resp are only displayed and are left out.  The wall     *)
(* clock is read as one fixed time stamp per run.                          *)
(*                                                                         *)
(* Text: a message is a sequence of string pieces (the JS concatenation of *)
(* them); CharsOf gives the characters of each piece, so that              *)
(* String.includes is a real substring search.  The em dash, the           *)
(* non-breaking hyphen and the bullet of the source texts are written      *)
(* "-", "-" and "*".                                                       *)
(***************************************************************************)
EXTENDS Integers, Sequences, FiniteSets, TLC

VARIABLES
    running,    \* useState(false)
    time,       \* useState(0)
    sensors,    \* enabled sensors
    params,     \* thresholds / policy params
    stream,     \* simulated stream: records {t, smooth, tremor, grip, hr, rr}
    message,    \* coach message (sequence of string pieces)
    mode,       \* "IDLE" | "COACHING" | "REST"
    notes,      \* log lines
    tickEnv,    \* what the running interval's closure captured
    due,        \* effects scheduled by the last commit
    clicks,     \* history: Start / Pause / Reset clicks so far
    edits,      \* history: check box and slider changes so far
    ev,         \* history: the last policy evaluation
    sinceLog,   \* history: samples generated since the last log entry
    twin,       \* a second run of the program, given the same events
    sameDraws,  \* history: both runs drew the same Math.random() outcomes
    sample,     \* the record synthesized last (signal synthesis on its own)
    points,     \* LayoutPane: useState([...]) of the markers {id, x, y}
    dragging,   \* LayoutPane: useRef(null); <<>> is null, <<d>> is {id, ox, oy}
    moves,      \* history: mouse moves so far
    csv,        \* the text of the file downloaded last (<<>>: none yet)
    exported    \* history: the log when it was exported last

appVars == <<running, time, sensors, params, stream, message, mode, notes,
             tickEnv, due>>

vars == <<running, time, sensors, params, stream, message, mode, notes,
          tickEnv, due, clicks, edits, ev, sinceLog, twin, sameDraws, sample,
          points, dragging, moves, csv, exported>>

----------------------------------------------------------------------------
(* Bounds of the exploration *)

MaxTicks == 2
MaxLongTicks == 200
MaxClicks == 2
MaxEdits == 2
MaxMoves == 2
MaxMouse == 1
MaxExportTicks == 15


----------------------------------------------------------------------------
(* Utilities *)

Max(a, b) == IF a >= b THEN a ELSE b
Min(a, b) == IF a <= b THEN a ELSE b

clamp(v, lo, hi) == Max(lo, Min(hi, v))

\* rnd(m, v) with jitter j = (Math.random() - 0.5) * 2, in thousandths
rnd(m, v, j) == m + (j * v) \div 1000

Abs(x) == IF x < 0 THEN -x ELSE x

defaultUserModel ==
    [hrRest |-> 72000, rrRest |-> 12000, tremorBase |-> 150,
     gripMax |-> 60000, smoothnessBase |-> 700]

user == defaultUserModel

SensorNames ==
    {"tpuForearm", "tpuBicep", "tpuShoulder", "forcePads", "imu", "ppg",
     "resp", "haptic"}

defaultSensors == [k \in SensorNames |-> TRUE]

\* check boxes tried by the exploration ("imu" stands for the three sensors
\* that no code reads: tpuBicep, tpuShoulder, imu)
SensorChoices == {"tpuForearm", "forcePads", "imu", "ppg", "resp", "haptic"}

ParamNames ==
    {"tremorWarn", "tremorRest", "smoothMin", "gripTarget", "hrCeiling",
     "rrCeiling", "difficulty"}

defaultParams ==
    [tremorWarn |-> 350, tremorRest |-> 550, smoothMin |-> 450,
     gripTarget |-> 18000, hrCeiling |-> 120000, rrCeiling |-> 20000,
     difficulty |-> 1000]

\* the sliders: min, max, step
Sliders ==
    [tremorWarn |-> [min |-> 0, max |-> 1000, step |-> 10],
     tremorRest |-> [min |-> 0, max |-> 1000, step |-> 10],
     smoothMin  |-> [min |-> 0, max |-> 1000, step |-> 10],
     gripTarget |-> [min |-> 0, max |-> 60000, step |-> 1000],
     hrCeiling  |-> [min |-> 80000, max |-> 180000, step |-> 1000],
     rrCeiling  |-> [min |-> 10000, max |-> 35000, step |-> 1000],
     difficulty |-> [min |-> 600, max |-> 1800, step |-> 10]]

OnSlider(key, v) ==
    /\ Sliders[key].min <= v
    /\ v <= Sliders[key].max
    /\ (v - Sliders[key].min) % Sliders[key].step = 0

\* slider positions tried by the exploration
ParamChoices ==
    [tremorWarn |-> {350, 50},
     tremorRest |-> {550, 50},
     smoothMin  |-> {450, 750},
     gripTarget |-> {18000, 30000},
     hrCeiling  |-> {120000, 87000},
     rrCeiling  |-> {20000, 13000},
     difficulty |-> {1000, 600, 1800}]

----------------------------------------------------------------------------
(* Texts *)

IdleText == "Coach idle. Press Start."
HealthText == "Heart/resp high - pause and breathe"
TremorText == "Tremor elevated - guided rest"
SlowText == "Slow down, lengthen exhale"
MatchText == "Match both hands gently"
MicroText == "Micro-break: shake out wrist"
NiceText == "Nice form - adding tiny challenge"
HapticText == " * Haptic cue: 200 ms pulse"

CharsOf(s) ==
    CASE s = IdleText ->
           <<"C", "o", "a", "c", "h", " ", "i", "d", "l", "e", ".", " ", "P",
             "r", "e", "s", "s", " ", "S", "t", "a", "r", "t", ".">>
      [] s = HealthText ->
           <<"H", "e", "a", "r", "t", "/", "r", "e", "s", "p", " ", "h", "i",
             "g", "h", " ", "-", " ", "p", "a", "u", "s", "e", " ", "a", "n",
             "d", " ", "b", "r", "e", "a", "t", "h", "e">>
      [] s = TremorText ->
           <<"T", "r", "e", "m", "o", "r", " ", "e", "l", "e", "v", "a", "t",
             "e", "d", " ", "-", " ", "g", "u", "i", "d", "e", "d", " ", "r",
             "e", "s", "t">>
      [] s = SlowText ->
           <<"S", "l", "o", "w", " ", "d", "o", "w", "n", ",", " ", "l", "e",
             "n", "g", "t", "h", "e", "n", " ", "e", "x", "h", "a", "l", "e">>
      [] s = MatchText ->
           <<"M", "a", "t", "c", "h", " ", "b", "o", "t", "h", " ", "h", "a",
             "n", "d", "s", " ", "g", "e", "n", "t", "l", "y">>
      [] s = MicroText ->
           <<"M", "i", "c", "r", "o", "-", "b", "r", "e", "a", "k", ":", " ",
             "s", "h", "a", "k", "e", " ", "o", "u", "t", " ", "w", "r", "i",
             "s", "t">>
      [] s = NiceText ->
           <<"N", "i", "c", "e", " ", "f", "o", "r", "m", " ", "-", " ", "a",
             "d", "d", "i", "n", "g", " ", "t", "i", "n", "y", " ", "c", "h",
             "a", "l", "l", "e", "n", "g", "e">>
      [] s = HapticText ->
           <<" ", "*", " ", "H", "a", "p", "t", "i", "c", " ", "c", "u", "e",
             ":", " ", "2", "0", "0", " ", "m", "s", " ", "p", "u", "l", "s",
             "e">>

RECURSIVE Str(_)
\* the characters of a message
Str(msg) == IF msg = <<>> THEN <<>> ELSE CharsOf(Head(msg)) \o Str(Tail(msg))

\* String.prototype.includes
includes(hay, needle) ==
    \E i \in 1..(Len(hay) - Len(needle) + 1) :
        SubSeq(hay, i, i + Len(needle) - 1) = needle

PauseWord == <<"p", "a", "u", "s", "e">>
NiceWord == <<"N", "i", "c", "e">>

----------------------------------------------------------------------------
(* Signal synthesis: the setStream updater of the interval callback *)

Draws == {"smooth", "tremor", "grip", "hr", "rr"}

\* every rnd() call of one tick at its mean
MidJitter == [f \in Draws |-> 0]

\* the Math.random() outcomes tried for one tick: every draw at the mean,
\* one draw at the top of its range, or every draw at the bottom
Jitters ==
    {MidJitter, [f \in Draws |-> -1000]}
        \cup {[MidJitter EXCEPT ![f] = 999] : f \in Draws}

\* every rnd() call of one tick at the bottom, at the mean or at the top of
\* its range, independently
FullJitters == [Draws -> {-1000, 0, 999}]

KeepN == 180

\* arr.slice(-n)
sliceLast(arr, n) ==
    IF Len(arr) <= n THEN arr ELSE SubSeq(arr, Len(arr) - n + 1, Len(arr))

synthSmooth(env, j) ==
    clamp((rnd(user.smoothnessBase, 150, j.smooth) * env.difficulty) \div 1000,
          0, 1000)

\* mutant: the tremor is not clamped
synthTremorRaw(smooth, j) ==
    (rnd(user.tremorBase, 200, j.tremor) * (1150 - smooth)) \div 1000

synthTremor(smooth, j) ==
    clamp((rnd(user.tremorBase, 200, j.tremor) * (1150 - smooth)) \div 1000,
          0, 1000)

synthGrip(env, j) ==
    clamp((rnd(env.gripTarget, 6000, j.grip)
             * (IF env.forcePads THEN 1 ELSE 0)
             * (IF env.mode = "REST" THEN 600 ELSE 1000)) \div 1000,
          0, user.gripMax)

synthHr(env, smooth, j) ==
    clamp(rnd(user.hrRest
                + (env.difficulty * 25 * (IF smooth < 550 THEN 1000 ELSE 600))
                    \div 1000,
              4000, j.hr),
          50000, 200000)

synthRr(hr, j) ==
    clamp(rnd(user.rrRest + (hr - user.hrRest) \div 20, 1400, j.rr),
          6000, 35000)

\* the record of one tick; strain, emgEnv, fsr and resp are display-only
\* fields that no handler or effect reads, and are left out
synthRec(arr, env, j) ==
    LET t == IF Len(arr) > 0 THEN arr[Len(arr)].t + 1 ELSE 0
        smooth == synthSmooth(env, j)
        tremor == synthTremor(smooth, j)
        grip == synthGrip(env, j)
        hr == synthHr(env, smooth, j)
        rr == synthRr(hr, j)
    IN  [t |-> t, smooth |-> smooth, tremor |-> tremor, grip |-> grip,
         hr |-> hr, rr |-> rr]

\* mutant: arr.slice(0, 180) keeps the oldest records
pushRecHead(arr, rec) ==
    Append(IF Len(arr) <= KeepN THEN arr ELSE SubSeq(arr, 1, KeepN), rec)

\* return [...arr.slice(-180), rec]
pushRec(arr, rec) == Append(sliceLast(arr, KeepN), rec)

----------------------------------------------------------------------------
(* Coaching policy: the body of the policy effect *)

\* mutant: the heart rate is compared with the breathing ceiling
healthGateMixed(last, sens, par) ==
    \/ sens.ppg /\ last.hr > par.rrCeiling
    \/ sens.resp /\ last.rr > par.rrCeiling

healthGate(last, sens, par) ==
    \/ sens.ppg /\ last.hr > par.hrCeiling
    \/ sens.resp /\ last.rr > par.rrCeiling

\* mutant: the gate compares with the warning threshold
tremorGateWarn(last, sens, par) ==
    sens.tpuForearm /\ last.tremor > par.tremorWarn

tremorGate(last, sens, par) ==
    sens.tpuForearm /\ last.tremor > par.tremorRest

\* mutant: the grip rule is tried before the smoothness rule
adviceGripFirst(last, par) ==
    IF Abs(last.grip - par.gripTarget) > 8000 THEN MatchText
    ELSE IF last.smooth < par.smoothMin THEN SlowText
    ELSE IF last.tremor > par.tremorWarn THEN MicroText
    ELSE NiceText

advice(last, par) ==
    IF last.smooth < par.smoothMin THEN SlowText
    ELSE IF Abs(last.grip - par.gripTarget) > 8000 THEN MatchText
    ELSE IF last.tremor > par.tremorWarn THEN MicroText
    ELSE NiceText

\* mutant: the tremor gate is tried before the health gates
decideTremorFirst(cur, last, sens, par, run) ==
    LET d0 == [nextMode |-> cur, coach |-> <<>>]
    IN  IF tremorGate(last, sens, par)
            THEN [d0 EXCEPT !.nextMode = "REST", !.coach = <<TremorText>>]
        ELSE IF healthGate(last, sens, par)
            THEN [d0 EXCEPT !.nextMode = "REST", !.coach = <<HealthText>>]
        ELSE IF run
            THEN [d0 EXCEPT !.nextMode = "COACHING",
                            !.coach = <<advice(last, par)>>]
        ELSE [d0 EXCEPT !.nextMode = "IDLE", !.coach = <<IdleText>>]

\* mutant: the coaching branch leaves nextMode as it was
decideSticky(cur, last, sens, par, run) ==
    LET d0 == [nextMode |-> cur, coach |-> <<>>]
    IN  IF healthGate(last, sens, par)
            THEN [d0 EXCEPT !.nextMode = "REST", !.coach = <<HealthText>>]
        ELSE IF tremorGate(last, sens, par)
            THEN [d0 EXCEPT !.nextMode = "REST", !.coach = <<TremorText>>]
        ELSE IF run
            THEN [d0 EXCEPT !.coach = <<advice(last, par)>>]
        ELSE [d0 EXCEPT !.nextMode = "IDLE", !.coach = <<IdleText>>]

\* let nextMode = mode; let coach = ""; and the if / else-if chain
decide(cur, last, sens, par, run) ==
    LET d0 == [nextMode |-> cur, coach |-> <<>>]
    IN  IF healthGate(last, sens, par)
            THEN [d0 EXCEPT !.nextMode = "REST", !.coach = <<HealthText>>]
        ELSE IF tremorGate(last, sens, par)
            THEN [d0 EXCEPT !.nextMode = "REST", !.coach = <<TremorText>>]
        ELSE IF run
            THEN [d0 EXCEPT !.nextMode = "COACHING",
                            !.coach = <<advice(last, par)>>]
        ELSE [d0 EXCEPT !.nextMode = "IDLE", !.coach = <<IdleText>>]

\* mutant: the suffix is added in IDLE too
withHapticAlways(d, sens) ==
    IF sens.haptic THEN [d EXCEPT !.coach = @ \o <<HapticText>>] ELSE d

\* haptic suggestion text (if enabled)
withHaptic(d, sens) ==
    IF sens.haptic /\ d.nextMode # "IDLE"
        THEN [d EXCEPT !.coach = @ \o <<HapticText>>]
        ELSE d

\* mutant: only the periodic entries are written
shouldLogPeriodic(len, coach) == len % 15 = 0

\* log when advice changes materially or every ~15s
shouldLog(len, coach) ==
    \/ len % 15 = 0
    \/ includes(Str(coach), PauseWord)
    \/ includes(Str(coach), NiceWord)

\* Number.prototype.toFixed(2) / toFixed(1) / Math.round of a value held in
\* thousandths; the result is in hundredths / tenths / units
toFixed2(v) == (v + 5) \div 10
toFixed1(v) == (v + 50) \div 100
round(v) == (v + 500) \div 1000

\* mutant: the logged message carries the time stamp
noteOfStamped(last, d, ts) ==
    [ts |-> ts, mode |-> d.nextMode, msg |-> d.coach \o <<ts>>,
     smooth |-> toFixed2(last.smooth), tremor |-> toFixed2(last.tremor),
     grip |-> toFixed1(last.grip), hr |-> round(last.hr),
     rr |-> round(last.rr)]

noteOf(last, d, ts) ==
    [ts |-> ts, mode |-> d.nextMode, msg |-> d.coach,
     smooth |-> toFixed2(last.smooth), tremor |-> toFixed2(last.tremor),
     grip |-> toFixed1(last.grip), hr |-> round(last.hr),
     rr |-> round(last.rr)]

----------------------------------------------------------------------------
(* The component state as one record, and the handlers and effects as       *)
(* functions of it.  Both runs (the variables, and twin) go through these.  *)

noInterval ==
    [armed |-> FALSE, difficulty |-> 0, gripTarget |-> 0, forcePads |-> FALSE,
     mode |-> "IDLE"]

\* the useState initial values
initialApp ==
    [running |-> FALSE, time |-> 0, sensors |-> defaultSensors,
     params |-> defaultParams, stream |-> <<>>, message |-> <<IdleText>>,
     mode |-> "IDLE", notes |-> <<>>, tickEnv |-> noInterval, due |-> {}]

\* dependency arrays of the two effects
tickDeps(s) == <<s.running, s.params.difficulty, s.sensors.forcePads, s.mode>>
policyDeps(s) == <<s.stream, s.running, s.sensors, s.params, s.mode>>

\* the commit of a render: the effects whose dependencies changed are due
schedule(old, new) ==
    [new EXCEPT !.due =
        (IF tickDeps(new) # tickDeps(old) THEN {"tick"} ELSE {})
            \cup (IF policyDeps(new) # policyDeps(old) THEN {"policy"} ELSE {})]

start(s) == [s EXCEPT !.running = TRUE]

\* mutant: Pause names a fourth mode
stopPaused(s) ==
    [s EXCEPT !.running = FALSE, !.mode = "PAUSED", !.message = <<IdleText>>]

stop(s) ==
    [s EXCEPT !.running = FALSE, !.mode = "IDLE", !.message = <<IdleText>>]

reset(s) == [s EXCEPT !.stream = <<>>, !.notes = <<>>, !.time = 0]

\* setSensors({ ...sensors, [k]: e.target.checked })
setSensors(s, k) == [s EXCEPT !.sensors[k] = ~@]

\* setParams({ ...params, [key]: Number(e.target.value) })
setParams(s, key, v) == [s EXCEPT !.params[key] = v]

\* the interval callback: setTime and setStream, with the values its closure
\* captured
intervalTick(s, j) ==
    [s EXCEPT !.time = @ + 1,
              !.stream = pushRec(@, synthRec(@, s.tickEnv, j))]

\* the tick effect: clear the old interval, start one if running
tickEffect(s) ==
    IF s.running
        THEN [s EXCEPT !.tickEnv =
                 [armed |-> TRUE, difficulty |-> s.params.difficulty,
                  gripTarget |-> s.params.gripTarget,
                  forcePads |-> s.sensors.forcePads, mode |-> s.mode]]
        ELSE [s EXCEPT !.tickEnv = noInterval]

\* what one run of the policy effect computes
evaluate(s) ==
    LET last == s.stream[Len(s.stream)]
    IN  withHaptic(decide(s.mode, last, s.sensors, s.params, s.running),
                   s.sensors)

policyRuns(s) == "policy" \in s.due /\ Len(s.stream) > 0

\* mutant: the new entry is put in front of the log
policyEffectPrepend(s, ts) ==
    IF Len(s.stream) = 0 THEN s
    ELSE LET last == s.stream[Len(s.stream)]
             d == evaluate(s)
         IN  [s EXCEPT !.mode = d.nextMode,
                       !.message = d.coach,
                       !.notes = IF shouldLog(Len(s.stream), d.coach)
                                     THEN <<noteOf(last, d, ts)>> \o @
                                     ELSE @]

\* the policy effect
policyEffect(s, ts) ==
    IF Len(s.stream) = 0 THEN s
    ELSE LET last == s.stream[Len(s.stream)]
             d == evaluate(s)
         IN  [s EXCEPT !.mode = d.nextMode,
                       !.message = d.coach,
                       !.notes = IF shouldLog(Len(s.stream), d.coach)
                                     THEN Append(@, noteOf(last, d, ts))
                                     ELSE @]

\* the effects that the last commit scheduled, in declaration order
runEffects(s, ts) ==
    LET s1 == IF "tick" \in s.due THEN tickEffect(s) ELSE s
        s2 == IF "policy" \in s.due THEN policyEffect(s1, ts) ELSE s1
    IN  schedule(s, s2)

----------------------------------------------------------------------------
(* Signal synthesis on its own: the inputs of one tick *)

Modes == {"IDLE", "COACHING", "REST"}

\* slider positions of the two sliders the synthesis reads: difficulty every
\* 0.1 from 0.6 to 1.8, gripTarget every 6 from 0 to 60
DifficultySweep == {600 + 100 * i : i \in 0..12}
GripSweep == {6000 * i : i \in 0..10}

\* what an interval's closure can have captured
SynthEnvs ==
    [armed : {TRUE}, difficulty : DifficultySweep, gripTarget : GripSweep,
     forcePads : BOOLEAN, mode : Modes]

----------------------------------------------------------------------------
(* LayoutPane: the sensor-layout editor *)

initialPoints ==
    << [id |-> "shoulder", x |-> 110, y |-> 70],
       [id |-> "bicep", x |-> 170, y |-> 90],
       [id |-> "forearm", x |-> 260, y |-> 150],
       [id |-> "wrist", x |-> 330, y |-> 200],
       [id |-> "imu", x |-> 210, y |-> 120],
       [id |-> "ppg", x |-> 140, y |-> 130],
       [id |-> "resp", x |-> 80, y |-> 110] >>

\* the layout state as one record; e is the mouse event {clientX, clientY}
Layout == [points |-> points, dragging |-> dragging]

onDown(l, id, e) ==
    [l EXCEPT !.dragging = <<[id |-> id, ox |-> e.clientX, oy |-> e.clientY]>>]

\* mutant: the map moves every marker
onMoveAll(l, e) ==
    IF l.dragging = <<>> THEN l
    ELSE LET d == l.dragging[1]
             dx == e.clientX - d.ox
             dy == e.clientY - d.oy
         IN  [points |->
                 [i \in 1..Len(l.points) |->
                     [l.points[i] EXCEPT !.x = @ + dx, !.y = @ + dy]],
              dragging |->
                 <<[id |-> d.id, ox |-> e.clientX, oy |-> e.clientY]>>]

onMove(l, e) ==
    IF l.dragging = <<>> THEN l
    ELSE LET d == l.dragging[1]
             dx == e.clientX - d.ox
             dy == e.clientY - d.oy
         IN  [points |->
                 [i \in 1..Len(l.points) |->
                     IF l.points[i].id = d.id
                         THEN [l.points[i] EXCEPT !.x = @ + dx, !.y = @ + dy]
                         ELSE l.points[i]],
              dragging |->
                 <<[id |-> d.id, ox |-> e.clientX, oy |-> e.clientY]>>]

onUp(l) == [l EXCEPT !.dragging = <<>>]

----------------------------------------------------------------------------
(* State *)

App ==
    [running |-> running, time |-> time, sensors |-> sensors,
     params |-> params, stream |-> stream, message |-> message,
     mode |-> mode, notes |-> notes, tickEnv |-> tickEnv, due |-> due]

Becomes(s) ==
    /\ running' = s.running
    /\ time' = s.time
    /\ sensors' = s.sensors
    /\ params' = s.params
    /\ stream' = s.stream
    /\ message' = s.message
    /\ mode' = s.mode
    /\ notes' = s.notes
    /\ tickEnv' = s.tickEnv
    /\ due' = s.due

noEval ==
    [done |-> FALSE, fromMode |-> "IDLE", prev |-> <<>>, coach |-> <<>>,
     logged |-> FALSE]

\* new Date().toISOString(): the time stamp of the first and of the second
\* run
ClockA == "2025-01-01T10:00:00.000Z"
ClockB == "2025-01-02T17:30:00.000Z"

----------------------------------------------------------------------------
(* CSV export *)

\* the characters of a time stamp, of a mode name and of a key of a note
WordChars(s) ==
    CASE s = ClockA ->
           <<"2", "0", "2", "5", "-", "0", "1", "-", "0", "1", "T", "1", "0",
             ":", "0", "0", ":", "0", "0", ".", "0", "0", "0", "Z">>
      [] s = ClockB ->
           <<"2", "0", "2", "5", "-", "0", "1", "-", "0", "2", "T", "1", "7",
             ":", "3", "0", ":", "0", "0", ".", "0", "0", "0", "Z">>
      [] s = "IDLE" ->
           <<"I", "D", "L", "E">>
      [] s = "COACHING" ->
           <<"C", "O", "A", "C", "H", "I", "N", "G">>
      [] s = "REST" ->
           <<"R", "E", "S", "T">>
      [] s = "ts" ->
           <<"t", "s">>
      [] s = "mode" ->
           <<"m", "o", "d", "e">>
      [] s = "msg" ->
           <<"m", "s", "g">>
      [] s = "smooth" ->
           <<"s", "m", "o", "o", "t", "h">>
      [] s = "tremor" ->
           <<"t", "r", "e", "m", "o", "r">>
      [] s = "grip" ->
           <<"g", "r", "i", "p">>
      [] s = "hr" ->
           <<"h", "r">>
      [] s = "rr" ->
           <<"r", "r">>

DigitChars == <<"0", "1", "2", "3", "4", "5", "6", "7", "8", "9">>

RECURSIVE numStr(_)
\* String(n) of a natural number
numStr(n) ==
    IF n < 10 THEN <<DigitChars[n + 1]>>
    ELSE numStr(n \div 10) \o <<DigitChars[(n % 10) + 1]>>

\* the string toFixed(2) returned, from its hundredths, and the string
\* toFixed(1) returned, from its tenths
fixed2Str(n) ==
    numStr(n \div 100)
        \o <<".", DigitChars[((n \div 10) % 10) + 1], DigitChars[(n % 10) + 1]>>
fixed1Str(n) == numStr(n \div 10) \o <<".", DigitChars[(n % 10) + 1]>>

RECURSIVE join(_, _)
\* Array.prototype.join
join(parts, sep) ==
    IF parts = <<>> THEN <<>>
    ELSE IF Len(parts) = 1 THEN parts[1]
    ELSE parts[1] \o sep \o join(Tail(parts), sep)

\* Object.keys and Object.values of a note, in the order of the literal
keysOf(r) == <<"ts", "mode", "msg", "smooth", "tremor", "grip", "hr", "rr">>
valuesOf(r) ==
    <<WordChars(r.ts), WordChars(r.mode), Str(r.msg), fixed2Str(r.smooth),
      fixed2Str(r.tremor), fixed1Str(r.grip), numStr(r.hr), numStr(r.rr)>>

\* the text of the file that exportCSV offers for download
exportCSV(rows) ==
    LET header ==
            IF rows = <<>> THEN <<>>
            ELSE join([i \in 1..Len(keysOf(rows[1])) |->
                          WordChars(keysOf(rows[1])[i])], <<",">>)
        lines == [i \in 1..Len(rows) |-> join(valuesOf(rows[i]), <<",">>)]
    IN  join(<<header>> \o lines, <<"\n">>)

Init ==
    /\ running = initialApp.running
    /\ time = initialApp.time
    /\ sensors = initialApp.sensors
    /\ params = initialApp.params
    /\ stream = initialApp.stream
    /\ message = initialApp.message
    /\ mode = initialApp.mode
    /\ notes = initialApp.notes
    /\ tickEnv = initialApp.tickEnv
    /\ due = initialApp.due
    /\ clicks = 0
    /\ edits = 0
    /\ ev = noEval
    /\ sinceLog = 0
    /\ twin = initialApp
    /\ sameDraws = TRUE
    /\ sample = <<>>
    /\ points = initialPoints
    /\ dragging = <<>>
    /\ moves = 0
    /\ csv = <<>>
    /\ exported = <<>>

----------------------------------------------------------------------------
(* Events of the first run *)

\* Start button (disabled while running)
Start ==
    /\ due = {}
    /\ ~running
    /\ clicks < MaxClicks
    /\ Becomes(schedule(App, start(App)))
    /\ clicks' = clicks + 1
    /\ UNCHANGED <<edits, ev, sinceLog>>

\* Pause button (disabled while not running)
Pause ==
    /\ due = {}
    /\ running
    /\ clicks < MaxClicks
    /\ Becomes(schedule(App, stop(App)))
    /\ clicks' = clicks + 1
    /\ UNCHANGED <<edits, ev, sinceLog>>

\* Reset button
Reset ==
    /\ due = {}
    /\ clicks < MaxClicks
    /\ Becomes(schedule(App, reset(App)))
    /\ clicks' = clicks + 1
    /\ sinceLog' = 0
    /\ UNCHANGED <<edits, ev>>

\* a sensor check box
ToggleSensor(k) ==
    /\ due = {}
    /\ edits < MaxEdits
    /\ Becomes(schedule(App, setSensors(App, k)))
    /\ edits' = edits + 1
    /\ UNCHANGED <<clicks, ev, sinceLog>>

\* a policy-parameter slider: onChange fires with a new position
MoveSlider(key, v) ==
    /\ due = {}
    /\ edits < MaxEdits
    /\ OnSlider(key, v)
    /\ v # params[key]
    /\ Becomes(schedule(App, setParams(App, key, v)))
    /\ edits' = edits + 1
    /\ UNCHANGED <<clicks, ev, sinceLog>>

\* the 1 Hz interval fires
TickWith(j) ==
    /\ due = {}
    /\ tickEnv.armed
    /\ Becomes(schedule(App, intervalTick(App, j)))
    /\ sinceLog' = sinceLog + 1
    /\ UNCHANGED <<clicks, edits, ev>>

\* React runs the effects that the last commit scheduled
Effects ==
    /\ due # {}
    /\ Becomes(runEffects(App, ClockA))
    /\ IF policyRuns(App)
         THEN LET d == evaluate(App)
                  log == shouldLog(Len(stream), d.coach)
              IN  /\ ev' = [done |-> TRUE, fromMode |-> mode,
                            prev |-> ev.coach, coach |-> d.coach,
                            logged |-> log]
                  /\ sinceLog' = IF log THEN 0 ELSE sinceLog
         ELSE UNCHANGED <<ev, sinceLog>>
    /\ UNCHANGED <<clicks, edits>>

\* the layout editor is a component of its own, and the synthesis on its
\* own has its own specification
Apart == UNCHANGED <<sample, points, dragging, moves, csv, exported>>

Solo == UNCHANGED <<twin, sameDraws>> /\ Apart

Tick ==
    /\ time < MaxTicks
    /\ \E j \in Jitters : TickWith(j)
    /\ Solo

Next ==
    \/ Start /\ Solo
    \/ Pause /\ Solo
    \/ Reset /\ Solo
    \/ \E k \in SensorChoices : ToggleSensor(k) /\ Solo
    \/ \E key \in ParamNames : \E v \in ParamChoices[key] :
           MoveSlider(key, v) /\ Solo
    \/ Tick
    \/ Effects /\ Solo

Spec == Init /\ [][Next]_vars

----------------------------------------------------------------------------
(* A long session: the sliders are set before Start, and every draw of      *)
(* every tick is at its mean                                                *)

SteadyTick ==
    /\ time < MaxLongTicks
    /\ TickWith(MidJitter)
    /\ Solo

IdleSlider ==
    /\ ~running
    /\ time = 0
    /\ \E key \in ParamNames : \E v \in ParamChoices[key] : MoveSlider(key, v)
    /\ Solo

NextLong ==
    \/ Start /\ Solo
    \/ Pause /\ Solo
    \/ IdleSlider
    \/ SteadyTick
    \/ Effects /\ Solo

SpecLong == Init /\ [][NextLong]_vars

----------------------------------------------------------------------------
(* Two runs given the same clicks and ticks; each draws its own             *)
(* Math.random() outcomes and reads its own wall clock                      *)

TwinStart ==
    /\ twin.due = {}
    /\ Start
    /\ twin' = schedule(twin, start(twin))
    /\ UNCHANGED sameDraws
    /\ Apart

TwinPause ==
    /\ twin.due = {}
    /\ Pause
    /\ twin' = schedule(twin, stop(twin))
    /\ UNCHANGED sameDraws
    /\ Apart

TwinReset ==
    /\ twin.due = {}
    /\ Reset
    /\ twin' = schedule(twin, reset(twin))
    /\ UNCHANGED sameDraws
    /\ Apart

TwinTick ==
    /\ time < MaxTicks
    /\ twin.due = {}
    /\ twin.tickEnv.armed
    /\ \E ja \in Jitters : \E jb \in Jitters :
          /\ TickWith(ja)
          /\ twin' = schedule(twin, intervalTick(twin, jb))
          /\ sameDraws' = (sameDraws /\ ja = jb)
    /\ Apart

TwinEffects ==
    /\ due # {} \/ twin.due # {}
    /\ IF due # {} THEN Effects
       ELSE UNCHANGED <<appVars, clicks, edits, ev, sinceLog>>
    /\ twin' = IF twin.due # {} THEN runEffects(twin, ClockB) ELSE twin
    /\ UNCHANGED sameDraws
    /\ Apart

TwinSlider ==
    \E v \in ParamChoices["rrCeiling"] :
        /\ twin.due = {}
        /\ MoveSlider("rrCeiling", v)
        /\ twin' = schedule(twin, setParams(twin, "rrCeiling", v))
        /\ UNCHANGED sameDraws
        /\ Apart

NextTwin ==
    \/ TwinStart
    \/ TwinPause
    \/ TwinReset
    \/ TwinSlider
    \/ TwinTick
    \/ TwinEffects

SpecTwin == Init /\ [][NextTwin]_vars


----------------------------------------------------------------------------
(* The default configuration: Start, Pause and ticks alone; no check box    *)
(* and no slider is touched                                                 *)

DefaultTick ==
    /\ time < MaxTicks
    /\ \E j \in FullJitters : TickWith(j)
    /\ Solo

NextDefault ==
    \/ Start /\ Solo
    \/ Pause /\ Solo
    \/ DefaultTick
    \/ Effects /\ Solo

SpecDefault == Init /\ [][NextDefault]_vars

----------------------------------------------------------------------------
(* Signal synthesis on its own: one tick of an interval, whatever its       *)
(* closure captured and whatever Math.random() returns                      *)

Synthesize ==
    /\ sample = <<>>
    /\ \E env \in SynthEnvs : \E j \in FullJitters :
           sample' = <<synthRec(<<>>, env, j)>>
    /\ UNCHANGED <<appVars, clicks, edits, ev, sinceLog, twin, sameDraws,
                   points, dragging, moves, csv, exported>>

NextSynth == Synthesize

SpecSynth == Init /\ [][NextSynth]_vars

----------------------------------------------------------------------------
(* LayoutPane: mouse events *)

\* where the mouse can be: on a line across the window
MouseEvents == {[clientX |-> k, clientY |-> 2 * k] : k \in 0..MaxMouse}

NoApp ==
    UNCHANGED <<appVars, clicks, edits, ev, sinceLog, twin, sameDraws, sample,
                csv, exported>>

\* onMouseDown of the marker of points[i]
MouseDown ==
    /\ \E i \in 1..Len(points) : \E e \in MouseEvents :
           /\ points' = onDown(Layout, points[i].id, e).points
           /\ dragging' = onDown(Layout, points[i].id, e).dragging
    /\ UNCHANGED moves
    /\ NoApp

\* mousemove on the window
MouseMove ==
    /\ moves < MaxMoves
    /\ \E e \in MouseEvents :
           /\ points' = onMove(Layout, e).points
           /\ dragging' = onMove(Layout, e).dragging
    /\ moves' = moves + 1
    /\ NoApp

\* mouseup on the window
MouseUp ==
    /\ points' = onUp(Layout).points
    /\ dragging' = onUp(Layout).dragging
    /\ UNCHANGED moves
    /\ NoApp

NextLayout ==
    \/ MouseDown
    \/ MouseMove
    \/ MouseUp

SpecLayout == Init /\ [][NextLayout]_vars

----------------------------------------------------------------------------
(* The log pane: a session with the Export CSV button *)

\* Export CSV button (disabled while the log is empty)
Export ==
    /\ due = {}
    /\ notes # <<>>
    /\ csv' = exportCSV(notes)
    /\ exported' = notes
    /\ UNCHANGED <<appVars, clicks, edits, ev, sinceLog, twin, sameDraws,
                   sample, points, dragging, moves>>

ExportTick ==
    /\ time < MaxExportTicks
    /\ TickWith(MidJitter)
    /\ Solo

NextExport ==
    \/ Start /\ Solo
    \/ Pause /\ Solo
    \/ IdleSlider
    \/ ExportTick
    \/ Effects /\ Solo
    \/ Export

SpecExport == Init /\ [][NextExport]_vars


----------------------------------------------------------------------------
(* Properties *)

Last == stream[Len(stream)]

\* the next step is a policy evaluation of the latest sample
Evaluating == "policy" \in due /\ Len(stream) > 0

\* the state is settled: every scheduled effect has run
Settled == due = {}

HealthHigh ==
    \/ sensors.ppg /\ Last.hr > params.hrCeiling
    \/ sensors.resp /\ Last.rr > params.rrCeiling

TremorHigh == sensors.tpuForearm /\ Last.tremor > params.tremorRest

HapticSuffix == IF sensors.haptic THEN <<HapticText>> ELSE <<>>

\* C1: in every reachable state the coach mode is one of IDLE, COACHING,
\* REST.
ModeIsOneOfThree == mode \in {"IDLE", "COACHING", "REST"}

\* C1 witness: the policy put the coach in REST and Pause was pressed; the
\* evaluation that followed kept REST.
ModeWitness ==
    /\ Settled
    /\ ev.done
    /\ ~running
    /\ clicks = 2
    /\ mode = "REST"

\* C2: a policy evaluation of a sample with hr above hrCeiling (ppg enabled)
\* or rr above rrCeiling (resp enabled) sets mode REST and the heart/resp
\* message, with the haptic suffix if haptic is enabled, running or not and
\* whatever tremor, smoothness and grip are.
HealthGateRests ==
    [][(Evaluating /\ HealthHigh)
          => /\ mode' = "REST"
             /\ message' = <<HealthText>> \o HapticSuffix]_vars

\* C2 witness: paused, the latest sample exceeds a health ceiling and the
\* tremor threshold at once, and the evaluation chose the health message.
HealthGateWitness ==
    /\ Settled
    /\ ev.done
    /\ ~running
    /\ Len(stream) > 0
    /\ HealthHigh
    /\ TremorHigh
    /\ mode = "REST"
    /\ message = <<HealthText>> \o HapticSuffix

\* C3: a policy evaluation of a sample for which no health gate fires, with
\* tpuForearm enabled and tremor above tremorRest, sets mode REST and the
\* tremor message (with the haptic suffix if enabled), running or not.
TremorGateRests ==
    [][(Evaluating /\ ~HealthHigh /\ TremorHigh)
          => /\ mode' = "REST"
             /\ message' = <<TremorText>> \o HapticSuffix]_vars

\* C3 witness: paused, no health gate, tremor above tremorRest, and the
\* evaluation after Pause chose REST with the tremor message.
TremorGateWitness ==
    /\ Settled
    /\ ev.done
    /\ ~running
    /\ Len(stream) > 0
    /\ ~HealthHigh
    /\ TremorHigh
    /\ mode = "REST"
    /\ message = <<TremorText>> \o HapticSuffix

SmoothLow == Last.smooth < params.smoothMin
GripOff ==
    \/ Last.grip - params.gripTarget > 8000
    \/ params.gripTarget - Last.grip > 8000
TremorWarned == Last.tremor > params.tremorWarn

\* C4: running and no gate firing, a policy evaluation sets mode COACHING and
\* the advice of the first matching rule: smooth < smoothMin, then
\* |grip - gripTarget| > 8, then tremor > tremorWarn, else the good-form text.
CoachingAdvice ==
    [][(Evaluating /\ running /\ ~HealthHigh /\ ~TremorHigh)
          => /\ mode' = "COACHING"
             /\ SmoothLow => message' = <<SlowText>> \o HapticSuffix
             /\ (~SmoothLow /\ GripOff)
                   => message' = <<MatchText>> \o HapticSuffix
             /\ (~SmoothLow /\ ~GripOff /\ TremorWarned)
                   => message' = <<MicroText>> \o HapticSuffix
             /\ (~SmoothLow /\ ~GripOff /\ ~TremorWarned)
                   => message' = <<NiceText>> \o HapticSuffix]_vars

\* C4 witness: running, no gate, smooth low and grip off target at once: the
\* smoothness advice was chosen.
CoachingAdviceWitness ==
    /\ Settled
    /\ ev.done
    /\ running
    /\ Len(stream) > 0
    /\ ~HealthHigh
    /\ ~TremorHigh
    /\ SmoothLow
    /\ GripOff
    /\ mode = "COACHING"
    /\ message = <<SlowText>> \o HapticSuffix

\* C5: in REST and running, the policy evaluation of a sample that exceeds no
\* enabled gate sets mode COACHING.
RestResumes ==
    [][(Evaluating /\ mode = "REST" /\ running /\ ~HealthHigh /\ ~TremorHigh)
          => mode' = "COACHING"]_vars

\* C5 witness: the sample before the latest one had put the coach in REST,
\* and the evaluation of the latest sample moved it from REST to COACHING.
RestResumesWitness ==
    /\ ev.done
    /\ ev.fromMode = "REST"
    /\ running
    /\ Len(stream) >= 2
    /\ ~HealthHigh
    /\ ~TremorHigh
    /\ mode = "COACHING"

\* C6: the mode is IDLE exactly when the message is 'Coach idle. Press
\* Start.', which carries no advice and no haptic suffix.
IdleIsSilent ==
    /\ mode = "IDLE" => Str(message) = CharsOf(IdleText)
    /\ Str(message) = CharsOf(IdleText) => mode = "IDLE"

\* C6 witness: with haptic enabled and samples in the stream, Pause was
\* pressed and the policy evaluation chose IDLE.
IdleWitness ==
    /\ Settled
    /\ ev.done
    /\ ~running
    /\ sensors.haptic
    /\ Len(stream) > 0
    /\ ev.coach = <<IdleText>>
    /\ mode = "IDLE"

\* C9: every policy evaluation whose message differs from the message of the
\* previous evaluation appends a log entry.
ChangeIsLogged ==
    [][(Evaluating /\ ev.done /\ message' # ev.coach)
          => Len(notes') = Len(notes) + 1]_vars

\* the stream holds the most recently generated samples, oldest first: the
\* sample numbers run without a gap up to the latest tick
RecentKept ==
    \A i \in 1..Len(stream) : stream[i].t = time - Len(stream) + i - 1

\* C7 as stated: after any number of ticks the stream holds at most 180
\* records, the most recently generated ones, dropped oldest-first.
StreamKeeps180 == Len(stream) <= 180 /\ RecentKept

\* C7 as amended: after any number of ticks the stream holds at most 181
\* records (180 kept and the new one), the most recently generated ones,
\* dropped oldest-first.
StreamKeeps181 == Len(stream) <= 181 /\ RecentKept

\* C7 witness: the stream is full and its oldest samples have been dropped.
StreamFullWitness ==
    /\ Len(stream) = 181
    /\ time > 185
    /\ stream[1].t > 0

\* C8: while the simulator runs, a log entry is appended at least once in
\* every 15 consecutive samples, however many samples were generated.
PeriodicLog == (running /\ Settled) => sinceLog < 15

\* C10 as stated: two runs given the same user actions and ticks have the
\* same stream, mode, message and log (time stamps apart).
StripTs(log) ==
    [i \in 1..Len(log) |->
        [mode |-> log[i].mode, msg |-> log[i].msg, smooth |-> log[i].smooth,
         tremor |-> log[i].tremor, grip |-> log[i].grip, hr |-> log[i].hr,
         rr |-> log[i].rr]]

----------------------------------------------------------------------------
(* The default configuration *)

\* the policy would choose REST for sample rec
GateFires(rec) ==
    \/ sensors.ppg /\ rec.hr > params.hrCeiling
    \/ sensors.resp /\ rec.rr > params.rrCeiling
    \/ sensors.tpuForearm /\ rec.tremor > params.tremorRest

\* C11 as stated, for REST: with the defaults, REST is reachable by Start,
\* Pause and ticks for some outcome of the jitter.  No click changes what a
\* tick can draw, so this says: whenever the interval is armed, some outcome
\* of the next tick's jitter gives a sample for which the policy chooses REST.
RestWithinReach ==
    (Settled /\ tickEnv.armed)
        => \E j \in FullJitters : GateFires(synthRec(stream, tickEnv, j))

\* C11 as amended: with the defaults, Start, Pause and ticks reach IDLE and
\* COACHING but never REST: no sample exceeds a default threshold, whatever
\* the jitter.
DefaultNeverRests ==
    /\ mode \in {"IDLE", "COACHING"}
    /\ \A i \in 1..Len(stream) : ~GateFires(stream[i])

\* C11 witness: COACHING was reached by Start and two ticks with every draw
\* of the second at the top of its range, and Pause then gave IDLE.
DefaultWitness ==
    /\ Settled
    /\ ev.done
    /\ ~running
    /\ mode = "IDLE"
    /\ Len(stream) = 2
    /\ Len(notes) > 0
    /\ notes[1].mode = "COACHING"
    /\ Last.hr > 90000
    /\ Last.tremor > 200

----------------------------------------------------------------------------
(* Signal ranges *)

\* C12: every record the synthesis produces, for every captured slider
\* setting, sensor setting and mode and every jitter outcome, has
\* 0 <= smooth <= 1, 0 <= tremor <= 1, 0 <= grip <= 60 (gripMax),
\* 50 <= hr <= 200 and 6 <= rr <= 35; the stream holds such records only.
SamplesInRange ==
    \A i \in 1..Len(sample) :
        /\ 0 <= sample[i].smooth /\ sample[i].smooth <= 1000
        /\ 0 <= sample[i].tremor /\ sample[i].tremor <= 1000
        /\ 0 <= sample[i].grip /\ sample[i].grip <= 60000
        /\ 50000 <= sample[i].hr /\ sample[i].hr <= 200000
        /\ 6000 <= sample[i].rr /\ sample[i].rr <= 35000

\* C12 witness: a record for which three clamps were needed: difficulty 1.8
\* (smooth would be above 1), the tremor draw at the bottom (tremor would be
\* negative) and gripTarget 60 with the grip draw at the top (grip would be
\* above gripMax).
SamplesClampedWitness ==
    /\ Len(sample) = 1
    /\ sample[1].smooth = 1000
    /\ sample[1].tremor = 0
    /\ sample[1].grip = 60000
    /\ sample[1].hr > 100000

----------------------------------------------------------------------------
(* The event log *)

\* C13: the event log is append-only: a step other than Reset keeps every
\* entry as it is and where it is, and adds new entries at the end only;
\* Reset empties the log.
LogAppendOnly ==
    [][IF Reset
         THEN notes' = <<>>
         ELSE /\ Len(notes') >= Len(notes)
              /\ \A i \in 1..Len(notes) : notes'[i] = notes[i]]_vars

\* C13 witness: entries of two different samples were appended one after
\* the other, the later one at the end.
LogAppendWitness ==
    /\ Settled
    /\ Len(stream) = 2
    /\ Len(notes) >= 2
    /\ notes[1].hr # notes[Len(notes)].hr
    /\ notes[Len(notes)].hr = (Last.hr + 500) \div 1000
    /\ notes[1].hr = (stream[1].hr + 500) \div 1000

----------------------------------------------------------------------------
(* The haptic cue *)

HapticCue == CharsOf(HapticText)

EndsWithCue(text) ==
    /\ Len(text) >= Len(HapticCue)
    /\ SubSeq(text, Len(text) - Len(HapticCue) + 1, Len(text)) = HapticCue

\* C14: a policy evaluation appends the haptic cue text to its message
\* exactly when the haptic sensor is enabled and the mode it chooses is not
\* IDLE; and with haptic disabled no message contains the cue (once the
\* effects of the last event have run).
HapticCueOnlyIfEnabled ==
    [][/\ Evaluating
            => (EndsWithCue(Str(message'))
                   <=> (sensors.haptic /\ mode' # "IDLE"))
       /\ (due' = {} /\ ~sensors'.haptic)
            => ~includes(Str(message'), HapticCue)]_vars

----------------------------------------------------------------------------
(* The exported file *)

\* the pieces of text between the occurrences of character c
SplitOn(text, c) ==
    LET at == {i \in 1..Len(text) : text[i] = c}
        n == Cardinality(at)
        pos(k) == CHOOSE p \in at : Cardinality({q \in at : q < p}) = k - 1
        from(k) == IF k = 1 THEN 1 ELSE pos(k - 1) + 1
        to(k) == IF k = n + 1 THEN Len(text) ELSE pos(k) - 1
    IN  [k \in 1..(n + 1) |-> SubSeq(text, from(k), to(k))]

\* C15: the file written by Export CSV has a header line of 8 fields
\* (ts, mode, msg, smooth, tremor, grip, hr, rr) and one data line per log
\* entry, in log order, each with exactly 8 comma-separated fields.
CsvWellFormed ==
    csv # <<>>
        => LET lines == SplitOn(csv, "\n")
           IN  /\ Len(lines) = Len(exported) + 1
               /\ Len(SplitOn(lines[1], ",")) = 8
               /\ \A i \in 1..Len(exported) :
                      LET fields == SplitOn(lines[i + 1], ",")
                      IN  /\ Len(fields) = 8
                          /\ fields[1] = WordChars(exported[i].ts)
                          /\ fields[2] = WordChars(exported[i].mode)

----------------------------------------------------------------------------
(* What a log entry holds *)

\* the evaluation that this step is appends an entry
Logs ==
    \/ Len(stream) % 15 = 0
    \/ includes(Str(message'), PauseWord)
    \/ includes(Str(message'), NiceWord)

NewEntry == notes'[Len(notes')]

\* C16 as stated: a policy evaluation appends a log entry exactly when the
\* stream length is a multiple of 15 or the chosen message contains 'pause'
\* or 'Nice'; the entry carries exactly the mode and message the evaluation
\* sets, and the smooth, tremor, grip, hr and rr of the latest sample.
\* (The entry holds smooth and tremor in hundredths, grip in tenths, hr and
\* rr in units; the sample holds thousandths.)
LogEntryExact ==
    [][Evaluating
         => IF Logs
              THEN /\ Len(notes') = Len(notes) + 1
                   /\ NewEntry.mode = mode'
                   /\ NewEntry.msg = message'
                   /\ NewEntry.smooth * 10 = Last.smooth
                   /\ NewEntry.tremor * 10 = Last.tremor
                   /\ NewEntry.grip * 100 = Last.grip
                   /\ NewEntry.hr * 1000 = Last.hr
                   /\ NewEntry.rr * 1000 = Last.rr
              ELSE notes' = notes]_vars

\* C16 as amended: ... and the smooth and tremor of the latest sample
\* rounded to 2 decimals, its grip rounded to 1 decimal and its hr and rr
\* rounded to the nearest integer.
LogEntryRounded ==
    [][Evaluating
         => IF Logs
              THEN /\ Len(notes') = Len(notes) + 1
                   /\ NewEntry.mode = mode'
                   /\ NewEntry.msg = message'
                   /\ NewEntry.smooth = (Last.smooth + 5) \div 10
                   /\ NewEntry.tremor = (Last.tremor + 5) \div 10
                   /\ NewEntry.grip = (Last.grip + 50) \div 100
                   /\ NewEntry.hr = (Last.hr + 500) \div 1000
                   /\ NewEntry.rr = (Last.rr + 500) \div 1000
              ELSE notes' = notes]_vars

\* C16 witness: the evaluation of a sample with hr 90.996 and tremor 0.067
\* appended an entry with hr 91 and tremor 0.07, and with the mode and the
\* message it set.
LogEntryWitness ==
    /\ ev.done
    /\ ev.logged
    /\ Len(stream) > 0
    /\ Len(notes) > 0
    /\ Last.hr = 90996
    /\ Last.tremor = 67
    /\ notes[Len(notes)].hr = 91
    /\ notes[Len(notes)].tremor = 7
    /\ notes[Len(notes)].mode = mode
    /\ notes[Len(notes)].msg = message

----------------------------------------------------------------------------
(* The sensor-layout editor *)

\* C17: a drag affects the grabbed marker only: a mouse event while no marker
\* is grabbed leaves every marker where it is, a move during a drag changes
\* the position of the grabbed marker only, and no step adds, removes or
\* renames a marker.
DragMovesGrabbedOnly ==
    [][/\ Len(points') = Len(points)
       /\ \A i \in 1..Len(points) : points'[i].id = points[i].id
       /\ dragging = <<>> => points' = points
       /\ dragging # <<>>
            => \A i \in 1..Len(points) :
                   points[i].id # dragging[1].id => points'[i] = points[i]]_vars

\* C17 witness: the forearm marker was grabbed with the mouse at (0, 0) and
\* dragged to (1, 2): it moved by (1, 2) and every other marker is where it
\* was.
DragWitness ==
    /\ dragging # <<>>
    /\ dragging[1].id = "forearm"
    /\ moves > 0
    /\ points[3] = [id |-> "forearm", x |-> 261, y |-> 152]
    /\ \A i \in 1..Len(points) : i # 3 => points[i] = initialPoints[i]
====
